---- MODULE Spec2Model ----
(***************************************************************************)
(* Robin Hood open-addressing hash table (Open_Table/src/open_table.c, the *)
(* array-of-structs layout, and Open_Table/src/open_table_V1_2.c, the      *)
(* structure-of-arrays layout), modelled as a state machine whose actions  *)
(* are the public calls ht_insert, ht_remove, ht_search and ht_destroy.    *)
(*                                                                         *)
(* Pointers are modelled by small integers: 0 is the NULL pointer, a key   *)
(* pointer k in Keys points to the integer k (the comparator compares the  *)
(* pointed-to integers), a value pointer is an opaque number.  The two     *)
(* float load factors are kept as exact fractions num/den; every fraction  *)
(* used has a power-of-two denominator, so the float products and          *)
(* comparisons of the code are exact and are computed here by cross        *)
(* multiplication.                                                         *)
(***************************************************************************)
EXTENDS Integers, Sequences, FiniteSets, TLC

(* ---- bounds of the model ---------------------------------------------- *)
MaxKey == 4      \* keys are 1..MaxKey
MaxOwned == 4    \* entries handed to the table and not yet released
MaxNull == 1     \* entries stored with a NULL value reference at a time

NULL == 0
\* UINT32_MAX / 2.  Sizes, probe steps and hash codes of a reachable state of
\* this model stay far below 2^31, so their uint32 arithmetic is plain integer
\* arithmetic.  The counter `active` can wrap (0 - 1): an integer a < 0 stands
\* for the uint32 value 2^32 + a, which keeps + 1 and - 1 exact.
UINT32_MAX_DIV_2 == 2147483647

\* (float)a > size * f  and  (float)a < size * f  for a uint32 a, a fraction f
u32_gt_scaled(a, size, f) == a < 0 \/ a * f.den > size * f.num
u32_lt_scaled(a, size, f) == a >= 0 /\ a * f.den < size * f.num

Keys == 1..MaxKey

\* The value pointers a caller passes with key k: NULL, or a pointer of its
\* own (the tests store 10 * key), so that entries are told apart by value.
ValueOf(k) == 10 * k
Vals(k) == {NULL, ValueOf(k)}

HT_FAILURE == "HT_FAILURE"
HT_SUCCESS == "HT_SUCCESS"
HT_KEY_EXISTS == "HT_KEY_EXISTS"
HT_KEY_NOT_FOUND == "HT_KEY_NOT_FOUND"
HT_MEM_ERROR == "HT_MEM_ERROR"
HT_INVALID_ARG == "HT_INVALID_ARG"
NONE == "NONE"

VARIABLES
    config,     \* the HTConfig the table was created with
    ht,         \* struct hashtab of open_table.c: [table, size, active]
    alive,      \* FALSE once ht_destroy has freed the table
    op,         \* the last public call
    arg_key,    \* its key argument
    arg_val,    \* its value argument (ht_insert)
    result,     \* the HTResult it returned
    found,      \* the pointer ht_search returned
    alloc_failed, \* the last call's calloc of a new store failed
    owned_keys, \* per key: entries inserted minus free_key calls on them
    owned_vals, \* per key: entries inserted minus free_val calls on them
    ht2,        \* struct hashtab of open_table_V1_2.c, driven by the same calls
    result2,    \* the HTResult its last call returned
    found2,     \* the pointer its ht_search returned
    ref,        \* reference map: the set of <<key, value>> pairs expected
    ref_result, \* the result the reference map gives the last call
    arg_ht,     \* the last call's table pointer was not NULL
    arg_len,    \* the last call's key_len argument
    rejected,   \* pointers the caller kept after an ht_insert that failed
    released    \* pointers the last call handed to free_key / free_val

soa_vars == <<ht2, result2, found2>>
ref_vars == <<ref, ref_result>>
call_vars == <<arg_ht, arg_len>>
own_vars == <<rejected, released>>

vars == <<config, ht, alive, op, arg_key, arg_val, result, found,
          alloc_failed, owned_keys, owned_vals, ht2, result2, found2,
          ref, ref_result, arg_ht, arg_len, rejected, released>>

(* ---- configurations ---------------------------------------------------- *)
Frac(n, d) == [num |-> n, den |-> d]

\* A float is a fraction with den > 0, or NaN (den = 0).  Every ordered
\* comparison with a NaN operand is false, as in C.
NaN == Frac(0, 0)

IsNaN(f) == f.den = 0

f_lt(a, b) == ~IsNaN(a) /\ ~IsNaN(b) /\ a.num * b.den < b.num * a.den
f_le(a, b) == ~IsNaN(a) /\ ~IsNaN(b) /\ a.num * b.den <= b.num * a.den
f_gt(a, b) == f_lt(b, a)
f_ge(a, b) == f_le(b, a)

validate_load_factors(load_factor, min_load_factor) ==
    IF f_le(load_factor, Frac(0, 1)) \/ f_gt(load_factor, Frac(1, 1))
    THEN HT_INVALID_ARG
    ELSE IF \/ f_lt(min_load_factor, Frac(0, 1))
            \/ f_ge(min_load_factor, load_factor)
         THEN HT_INVALID_ARG
    ELSE HT_SUCCESS

\* (load_factor, min_load_factor) pairs a table is created with
LoadFactors ==
    { <<Frac(3, 4), Frac(1, 4)>>,     \* the tests' setUp and HT_DEFAULT_CONFIG
      <<Frac(1, 1), Frac(0, 1)>>,     \* test_insert_into_full_table
      <<Frac(1, 2), Frac(1, 8)>>,     \* low thresholds, early resizes
      <<Frac(1, 1), Frac(7, 8)>>,     \* min_load_factor just below load_factor
      <<Frac(3, 4), Frac(1, 2)>> }

\* hash_func: all keys collide (constant_hash_func of the tests), every key
\* in a bucket of its own, and keys colliding in pairs with different codes
\* sharing a bucket at small capacities.
HashFuncs ==
    { [k \in Keys |-> 42],
      [k \in Keys |-> k],
      [k \in Keys |-> 4 * (k % 2) + (k \div 3)] }

Configs ==
    { [load_factor |-> lf[1], min_load_factor |-> lf[2], hash_func |-> h,
       free_key |-> TRUE, free_val |-> TRUE] :
      lf \in { p \in LoadFactors : validate_load_factors(p[1], p[2]) = HT_SUCCESS },
      h \in HashFuncs }

(* ---- strategies -------------------------------------------------------- *)
RECURSIVE BitAnd(_, _)
BitAnd(a, b) ==
    IF a = 0 \/ b = 0 THEN 0
    ELSE (a % 2) * (b % 2) + 2 * BitAnd(a \div 2, b \div 2)

\* Fault variant of probe_func: the probe does not advance.
probe_func_no_step(k, i, m) == BitAnd(k, m - 1)

probe_func(k, i, m) == BitAnd(k + i, m - 1)

\* A second pointer to an int equal to the one key pointer k points to is
\* -k; Deref is the pointed-to key.
Aliases == { -k : k \in Keys }

Deref(ptr) == IF ptr < 0 THEN -ptr ELSE ptr

\* compare_int_keys: compares the pointed-to integers
cmp_func(a, b) ==
    (IF Deref(a) > Deref(b) THEN 1 ELSE 0) - (IF Deref(a) < Deref(b) THEN 1 ELSE 0)

(* ---- slot store --------------------------------------------------------- *)
HTentry(h, p, k, v) == [hash_key |-> h, psl |-> p, key |-> k, value |-> v]

ZeroEntry == HTentry(0, 0, NULL, NULL)

\* calloc(n, sizeof(HTentry))
calloc_table(n) == [i \in 0..(n - 1) |-> ZeroEntry]

\* Fault variant of shl1: the size is shifted by two bits, as two resizes in
\* a row would leave it.
shl1_twice(x) == 4 * x

\* x << 1 on a uint32; a result of 2^31 or more is kept as the negative
\* number congruent to it modulo 2^32
shl1(x) ==
    IF x <= UINT32_MAX_DIV_2 \div 2 THEN 2 * x
    ELSE 2 * (x - (UINT32_MAX_DIV_2 \div 2 + 1)) - UINT32_MAX_DIV_2 - 1

validate_size(size, new_size) ==
    IF new_size = 0 \/ new_size < 0 \/ new_size > UINT32_MAX_DIV_2
    THEN HT_FAILURE
    ELSE HT_SUCCESS

(* ---- search ------------------------------------------------------------- *)
RECURSIVE search_loop(_, _, _, _)
search_loop(t, hash_key, key, i) ==
    IF i >= t.size THEN NULL
    ELSE LET index == probe_func(hash_key, i, t.size)
             entry == t.table[index]
         IN  IF entry.key = NULL THEN NULL
             ELSE IF entry.hash_key = hash_key /\ cmp_func(entry.key, key) = 0
                  THEN entry.value
             ELSE IF entry.psl < i THEN NULL
             ELSE search_loop(t, hash_key, key, i + 1)

ht_search(t, cfg, key) == search_loop(t, cfg.hash_func[Deref(key)], key, 0)

(* ---- insertion ---------------------------------------------------------- *)
\* Fault variant of insert_loop: plain linear probing, the carried entry never
\* takes the slot of a resident with a smaller psl.
RECURSIVE insert_loop_no_swap(_, _, _, _)
insert_loop_no_swap(t, hash_key, new_entry, i) ==
    IF i >= t.size THEN [ht |-> t, res |-> HT_FAILURE]
    ELSE LET index == probe_func(hash_key, i, t.size)
         IN  IF t.table[index].key = NULL
             THEN [ht |-> [t EXCEPT !.table[index] = new_entry,
                                    !.active = t.active + 1],
                   res |-> HT_SUCCESS]
             ELSE insert_loop_no_swap(t, hash_key,
                                      [new_entry EXCEPT !.psl = new_entry.psl + 1],
                                      i + 1)

\* Fault variant of insert_loop: the carried entry also takes the slot of a
\* resident with an equal psl.
RECURSIVE insert_loop_swap_on_tie(_, _, _, _)
insert_loop_swap_on_tie(t, hash_key, new_entry, i) ==
    IF i >= t.size THEN [ht |-> t, res |-> HT_FAILURE]
    ELSE LET index == probe_func(hash_key, i, t.size)
             entry == t.table[index]
         IN  IF entry.key = NULL
             THEN [ht |-> [t EXCEPT !.table[index] = new_entry,
                                    !.active = t.active + 1],
                   res |-> HT_SUCCESS]
             ELSE IF new_entry.psl >= entry.psl
                  THEN insert_loop_swap_on_tie(
                           [t EXCEPT !.table[index] = new_entry], hash_key,
                           [entry EXCEPT !.psl = entry.psl + 1], i + 1)
             ELSE insert_loop_swap_on_tie(
                      t, hash_key,
                      [new_entry EXCEPT !.psl = new_entry.psl + 1], i + 1)

RECURSIVE insert_loop(_, _, _, _)
insert_loop(t, hash_key, new_entry, i) ==
    IF i >= t.size THEN [ht |-> t, res |-> HT_FAILURE]
    ELSE LET index == probe_func(hash_key, i, t.size)
             entry == t.table[index]
         IN  IF entry.key = NULL
             THEN [ht |-> [t EXCEPT !.table[index] = new_entry,
                                    !.active = t.active + 1],
                   res |-> HT_SUCCESS]
             ELSE IF new_entry.psl > entry.psl
                  THEN insert_loop([t EXCEPT !.table[index] = new_entry],
                                   hash_key,
                                   [entry EXCEPT !.psl = entry.psl + 1],
                                   i + 1)
             ELSE insert_loop(t, hash_key,
                              [new_entry EXCEPT !.psl = new_entry.psl + 1],
                              i + 1)

\* Fault variant of insert_entry: the new entry starts with psl 1.
insert_entry_psl_one(t, hash_key, key, value) ==
    insert_loop(t, hash_key, HTentry(hash_key, 1, key, value), 0)

insert_entry(t, hash_key, key, value) ==
    insert_loop(t, hash_key, HTentry(hash_key, 0, key, value), 0)

\* Fault variant of rehash_loop: an entry is copied with its psl to the slot of
\* the same index (modulo the new size) and is not inserted again.
RECURSIVE rehash_loop_same_slot(_, _, _, _)
rehash_loop_same_slot(t, old_table, old_size, i) ==
    IF i >= old_size THEN t
    ELSE IF old_table[i].key # NULL
         THEN rehash_loop_same_slot(
                  [t EXCEPT !.table[i % t.size] = old_table[i],
                            !.active = t.active + 1],
                  old_table, old_size, i + 1)
    ELSE rehash_loop_same_slot(t, old_table, old_size, i + 1)

RECURSIVE rehash_loop(_, _, _, _)
rehash_loop(t, old_table, old_size, i) ==
    IF i >= old_size THEN t
    ELSE IF old_table[i].key # NULL
         THEN rehash_loop(insert_entry(t, old_table[i].hash_key,
                                       old_table[i].key, old_table[i].value).ht,
                          old_table, old_size, i + 1)
    ELSE rehash_loop(t, old_table, old_size, i + 1)

rehash_entries(t, old_table, old_size) == rehash_loop(t, old_table, old_size, 0)

\* Fault variant of resize: active is reset before the calloc result is
\* tested, so a failed allocation leaves the counter at 0.
resize_reset_before_alloc(t, new_size, alloc_ok) ==
    IF validate_size(t.size, new_size) # HT_SUCCESS
    THEN [ht |-> t, res |-> validate_size(t.size, new_size)]
    ELSE IF ~alloc_ok THEN [ht |-> [t EXCEPT !.active = 0], res |-> HT_MEM_ERROR]
    ELSE [ht |-> rehash_entries([table |-> calloc_table(new_size),
                                 size |-> new_size, active |-> 0],
                                t.table, t.size),
          res |-> HT_SUCCESS]

\* alloc_ok: whether calloc of the new store succeeds
resize(t, new_size, alloc_ok) ==
    IF validate_size(t.size, new_size) # HT_SUCCESS
    THEN [ht |-> t, res |-> validate_size(t.size, new_size)]
    ELSE IF ~alloc_ok THEN [ht |-> t, res |-> HT_MEM_ERROR]
    ELSE [ht |-> rehash_entries([table |-> calloc_table(new_size),
                                 size |-> new_size, active |-> 0],
                                t.table, t.size),
          res |-> HT_SUCCESS]

\* Fault variant of grow_needed: the entry about to be placed is not counted.
grow_needed_no_plus_one(t, cfg) ==
    u32_gt_scaled(t.active, t.size, cfg.load_factor)

\* ht->active + 1 > ht->size * ht->load_factor
grow_needed(t, cfg) ==
    u32_gt_scaled(t.active + 1, t.size, cfg.load_factor)

\* Fault variant of ht_insert: the ht_search test for a present key is left
\* out.
ht_insert_no_dup_check(t, cfg, key, value, alloc_ok) ==
    LET new_size == t.size * 2
        grown ==
            IF grow_needed(t, cfg)
            THEN resize(t, new_size, alloc_ok)
            ELSE [ht |-> t, res |-> HT_SUCCESS]
    IN  IF grown.res # HT_SUCCESS THEN grown
        ELSE insert_entry(grown.ht, cfg.hash_func[key], key, value)

ht_insert(t, cfg, key, value, alloc_ok) ==
    IF ht_search(t, cfg, key) # NULL THEN [ht |-> t, res |-> HT_KEY_EXISTS]
    ELSE LET new_size == shl1(t.size)
             grown ==
                 IF grow_needed(t, cfg)
                 THEN IF validate_size(t.size, new_size) # HT_SUCCESS
                      THEN [ht |-> t, res |-> validate_size(t.size, new_size)]
                      ELSE resize(t, new_size, alloc_ok)
                 ELSE [ht |-> t, res |-> HT_SUCCESS]
         IN  IF grown.res # HT_SUCCESS THEN grown
             ELSE insert_entry(grown.ht, cfg.hash_func[Deref(key)], key, value)

(* ---- removal ------------------------------------------------------------ *)
\* free_entry: the entry as the callbacks' branches leave it
free_entry(cfg, entry) ==
    [entry EXCEPT !.key = IF cfg.free_key THEN NULL ELSE @,
                  !.value = IF cfg.free_val THEN NULL ELSE @]

\* Fault variant of shift_loop: an entry that moves back gets psl 0.
RECURSIVE shift_loop_reset_psl(_, _, _, _)
shift_loop_reset_psl(t, current_index, hash_key, probe_count) ==
    LET next_index == probe_func(hash_key, probe_count, t.size)
    IN  IF t.table[next_index].key # NULL /\ t.table[next_index].psl > 0
        THEN shift_loop_reset_psl(
                 [t EXCEPT !.table[current_index] =
                     [t.table[next_index] EXCEPT !.psl = 0]],
                 next_index, hash_key, probe_count + 1)
        ELSE [t EXCEPT !.table[current_index].key = NULL]

\* probe_count is the value after the ++ of the code
RECURSIVE shift_loop(_, _, _, _)
shift_loop(t, current_index, hash_key, probe_count) ==
    LET next_index == probe_func(hash_key, probe_count, t.size)
    IN  IF t.table[next_index].key # NULL /\ t.table[next_index].psl > 0
        THEN shift_loop(
                 [t EXCEPT !.table[current_index] =
                     [t.table[next_index] EXCEPT !.psl = @ - 1]],
                 next_index, hash_key, probe_count + 1)
        ELSE [t EXCEPT !.table[current_index].key = NULL]

\* Fault variant of shift_entries_backward: the slot is emptied and the
\* entries behind it stay where they are.
shift_entries_backward_no_shift(t, current_index, hash_key, probe_count) ==
    [t EXCEPT !.table[current_index].key = NULL]

\* Fault variant of shift_entries_backward: only the entry next to the gap
\* moves back, and the gap is left behind it.
shift_entries_backward_one_step(t, current_index, hash_key, probe_count) ==
    LET next_index == probe_func(hash_key, probe_count + 1, t.size)
    IN  IF t.table[next_index].key # NULL /\ t.table[next_index].psl > 0
        THEN [t EXCEPT !.table[current_index] =
                           [t.table[next_index] EXCEPT !.psl = @ - 1],
                       !.table[next_index].key = NULL]
        ELSE [t EXCEPT !.table[current_index].key = NULL]

\* the number of times the while loop of shift_entries_backward moves an
\* entry, counted up to t.size; probe_count is the value after the ++
RECURSIVE shift_moves(_, _, _, _, _)
shift_moves(t, current_index, hash_key, probe_count, moves) ==
    LET next_index == probe_func(hash_key, probe_count, t.size)
    IN  IF /\ moves < t.size
           /\ t.table[next_index].key # NULL
           /\ t.table[next_index].psl > 0
        THEN shift_moves(
                 [t EXCEPT !.table[current_index] =
                     [t.table[next_index] EXCEPT !.psl = @ - 1]],
                 next_index, hash_key, probe_count + 1, moves + 1)
        ELSE moves

shift_entries_backward(t, current_index, hash_key, probe_count) ==
    shift_loop(t, current_index, hash_key, probe_count + 1)

\* Fault variant of shrink_needed: the floor test ht->size > 2 is left out.
shrink_needed_no_floor(t, cfg) ==
    u32_lt_scaled(t.active, t.size, cfg.min_load_factor)

\* ht->active < (float)ht->size * ht->min_load_factor && ht->size > 2
shrink_needed(t, cfg) ==
    /\ u32_lt_scaled(t.active, t.size, cfg.min_load_factor)
    /\ t.size > 2

\* Fault variant of remove_table_update: the table is never shrunk.
remove_table_update_no_shrink(t, cfg, alloc_ok) ==
    [ht |-> [t EXCEPT !.active = t.active - 1], res |-> NONE]

\* Fault variant of remove_table_update: when the allocation of the halved
\* store fails, the decrement of active is lost with it.
remove_table_update_undo_on_failure(t, cfg, alloc_ok) ==
    LET dec == [t EXCEPT !.active = t.active - 1]
    IN  IF shrink_needed(dec, cfg)
        THEN IF alloc_ok THEN resize(dec, dec.size \div 2, alloc_ok)
             ELSE [ht |-> t, res |-> HT_MEM_ERROR]
        ELSE [ht |-> dec, res |-> NONE]

\* res is the (ignored) result of the resize call, NONE when none was made
remove_table_update(t, cfg, alloc_ok) ==
    LET dec == [t EXCEPT !.active = t.active - 1]
    IN  IF shrink_needed(dec, cfg)
        THEN resize(dec, dec.size \div 2, alloc_ok)
        ELSE [ht |-> dec, res |-> NONE]

\* freed: the entry handed to free_entry, <<>> when none was
RECURSIVE remove_loop(_, _, _, _, _, _)
remove_loop(t, cfg, hash_key, key, alloc_ok, probe_count) ==
    IF probe_count >= t.size
    THEN [ht |-> t, res |-> HT_KEY_NOT_FOUND, freed |-> <<>>, shrink |-> NONE]
    ELSE LET current_index == probe_func(hash_key, probe_count, t.size)
             current_entry == t.table[current_index]
         IN  IF current_entry.key = NULL
             THEN [ht |-> t, res |-> HT_KEY_NOT_FOUND, freed |-> <<>>,
                   shrink |-> NONE]
             ELSE IF /\ current_entry.hash_key = hash_key
                     /\ cmp_func(current_entry.key, key) = 0
                  THEN LET cleared ==
                               [free_entry(cfg, current_entry)
                                   EXCEPT !.key = NULL, !.value = NULL]
                           shifted ==
                               shift_entries_backward(
                                   [t EXCEPT !.table[current_index] = cleared],
                                   current_index, hash_key, probe_count)
                           updated == remove_table_update(shifted, cfg, alloc_ok)
                       IN  [ht |-> updated.ht, res |-> HT_SUCCESS,
                            freed |-> <<current_entry>>, shrink |-> updated.res]
             ELSE IF current_entry.psl < probe_count
                  THEN [ht |-> t, res |-> HT_KEY_NOT_FOUND, freed |-> <<>>,
                        shrink |-> NONE]
             ELSE remove_loop(t, cfg, hash_key, key, alloc_ok, probe_count + 1)

remove_entry(t, cfg, hash_key, key, alloc_ok) ==
    remove_loop(t, cfg, hash_key, key, alloc_ok, 0)

\* Fault variant of ht_remove: remove_table_update runs whether or not the key
\* was found.
ht_remove_update_on_miss(t, cfg, key, alloc_ok) ==
    LET r == remove_entry(t, cfg, cfg.hash_func[key], key, alloc_ok)
    IN  IF r.res = HT_KEY_NOT_FOUND
        THEN [r EXCEPT !.ht = remove_table_update(t, cfg, alloc_ok).ht]
        ELSE r

ht_remove(t, cfg, key, alloc_ok) ==
    remove_entry(t, cfg, cfg.hash_func[Deref(key)], key, alloc_ok)

ht_capacity(t) == t.size

\* The public calls with their argument checks.  has_ht: the table pointer is
\* not NULL; key is NULL or a key pointer; key_len is the length passed.
ht_search_checked(has_ht, t, cfg, key, key_len) ==
    IF ~has_ht THEN NULL
    ELSE IF key = NULL THEN NULL
    ELSE IF key_len = 0 THEN NULL
    ELSE ht_search(t, cfg, key)

ht_insert_checked(has_ht, t, cfg, key, key_len, value, alloc_ok) ==
    IF ~has_ht THEN [ht |-> t, res |-> HT_INVALID_ARG]
    ELSE IF key = NULL THEN [ht |-> t, res |-> HT_INVALID_ARG]
    ELSE IF key_len = 0 THEN [ht |-> t, res |-> HT_INVALID_ARG]
    ELSE ht_insert(t, cfg, key, value, alloc_ok)

\* Fault variant of ht_remove_checked: the key_len test is left out.
ht_remove_checked_no_len(has_ht, t, cfg, key, key_len, alloc_ok) ==
    IF ~has_ht \/ key = NULL
    THEN [ht |-> t, res |-> HT_INVALID_ARG, freed |-> <<>>, shrink |-> NONE]
    ELSE ht_remove(t, cfg, key, alloc_ok)

ht_remove_checked(has_ht, t, cfg, key, key_len, alloc_ok) ==
    IF ~has_ht
    THEN [ht |-> t, res |-> HT_INVALID_ARG, freed |-> <<>>, shrink |-> NONE]
    ELSE IF key = NULL
    THEN [ht |-> t, res |-> HT_INVALID_ARG, freed |-> <<>>, shrink |-> NONE]
    ELSE IF key_len = 0
    THEN [ht |-> t, res |-> HT_INVALID_ARG, freed |-> <<>>, shrink |-> NONE]
    ELSE ht_remove(t, cfg, key, alloc_ok)

\* ht_destroy: the entries handed to free_entry, in index order
RECURSIVE destroy_loop(_, _)
destroy_loop(t, i) ==
    IF i >= t.size THEN <<>>
    ELSE IF t.table[i].key # NULL
         THEN <<t.table[i]>> \o destroy_loop(t, i + 1)
    ELSE destroy_loop(t, i + 1)

ht_destroy(t) == destroy_loop(t, 0)

\* the freed struct: no store, no capacity
Freed == [table |-> calloc_table(0), size |-> 0, active |-> 0]

\* ht_create: ok is FALSE when NULL is returned.  alloc_ok: malloc and calloc
\* succeed.
ht_create(cfg, alloc_ok) ==
    IF validate_load_factors(cfg.load_factor, cfg.min_load_factor) # HT_SUCCESS
    THEN [ok |-> FALSE, ht |-> Freed]
    ELSE IF ~alloc_ok THEN [ok |-> FALSE, ht |-> Freed]
    ELSE [ok |-> TRUE,
          ht |-> [table |-> calloc_table(2), size |-> 2, active |-> 0]]

(* ---- structure-of-arrays layout (open_table_V1_2.c) --------------------- *)
soa_calloc(n) == [i \in 0..(n - 1) |-> 0]

\* the hashtab of open_table_V1_2.c with four zeroed arrays of n slots
soa_new(n) ==
    [hash_keys |-> soa_calloc(n), psls |-> soa_calloc(n),
     keys |-> soa_calloc(n), values |-> soa_calloc(n),
     size |-> n, active |-> 0]

set_entry(t, index, hash_key, psl, key, value) ==
    [t EXCEPT !.hash_keys[index] = hash_key, !.psls[index] = psl,
              !.keys[index] = key, !.values[index] = value]

clear_entry(t, index) == set_entry(t, index, 0, 0, NULL, NULL)

RECURSIVE soa_search_loop(_, _, _, _)
soa_search_loop(t, hash_key, key, i) ==
    IF i >= t.size THEN NULL
    ELSE LET index == probe_func(hash_key, i, t.size)
         IN  IF t.keys[index] = NULL THEN NULL
             ELSE IF /\ t.hash_keys[index] = hash_key
                     /\ cmp_func(t.keys[index], key) = 0
                  THEN t.values[index]
             ELSE IF t.psls[index] < i THEN NULL
             ELSE soa_search_loop(t, hash_key, key, i + 1)

soa_ht_search(t, cfg, key) == soa_search_loop(t, cfg.hash_func[key], key, 0)

\* hash_key, key and value are the locals the swap branch overwrites; i is
\* not reset by the swap
RECURSIVE soa_insert_loop(_, _, _, _, _)
soa_insert_loop(t, hash_key, key, value, i) ==
    IF i >= t.size THEN [ht |-> t, res |-> HT_FAILURE]
    ELSE LET index == probe_func(hash_key, i, t.size)
         IN  IF t.keys[index] = NULL
             THEN [ht |-> [set_entry(t, index, hash_key, i, key, value)
                              EXCEPT !.active = t.active + 1],
                   res |-> HT_SUCCESS]
             ELSE IF i > t.psls[index]
                  THEN soa_insert_loop(
                           set_entry(t, index, hash_key, i, key, value),
                           t.hash_keys[index], t.keys[index], t.values[index],
                           i + 1)
             ELSE soa_insert_loop(t, hash_key, key, value, i + 1)

soa_insert_entry(t, hash_key, key, value) ==
    soa_insert_loop(t, hash_key, key, value, 0)

RECURSIVE soa_rehash_loop(_, _, _)
soa_rehash_loop(t, old, i) ==
    IF i >= old.size THEN t
    ELSE IF old.keys[i] # NULL
         THEN soa_rehash_loop(
                  soa_insert_entry(t, old.hash_keys[i], old.keys[i],
                                   old.values[i]).ht,
                  old, i + 1)
    ELSE soa_rehash_loop(t, old, i + 1)

soa_rehash_entries(t, old) == soa_rehash_loop(t, old, 0)

soa_resize(t, new_size, alloc_ok) ==
    IF validate_size(t.size, new_size) # HT_SUCCESS
    THEN [ht |-> t, res |-> validate_size(t.size, new_size)]
    ELSE IF ~alloc_ok THEN [ht |-> t, res |-> HT_MEM_ERROR]
    ELSE [ht |-> soa_rehash_entries(soa_new(new_size), t), res |-> HT_SUCCESS]

soa_ht_insert(t, cfg, key, value, alloc_ok) ==
    IF soa_ht_search(t, cfg, key) # NULL THEN [ht |-> t, res |-> HT_KEY_EXISTS]
    ELSE LET new_size == t.size * 2
             grown ==
                 IF u32_gt_scaled(t.active + 1, t.size, cfg.load_factor)
                 THEN IF validate_size(t.size, new_size) # HT_SUCCESS
                      THEN [ht |-> t, res |-> validate_size(t.size, new_size)]
                      ELSE soa_resize(t, new_size, alloc_ok)
                 ELSE [ht |-> t, res |-> HT_SUCCESS]
         IN  IF grown.res # HT_SUCCESS THEN grown
             ELSE soa_insert_entry(grown.ht, cfg.hash_func[key], key, value)

RECURSIVE soa_shift_loop(_, _, _, _)
soa_shift_loop(t, current_index, hash_key, probe_count) ==
    LET next_index == probe_func(hash_key, probe_count, t.size)
    IN  IF t.keys[next_index] # NULL /\ t.psls[next_index] > 0
        THEN soa_shift_loop(
                 set_entry(t, current_index, t.hash_keys[next_index],
                           t.psls[next_index] - 1, t.keys[next_index],
                           t.values[next_index]),
                 next_index, hash_key, probe_count + 1)
        ELSE clear_entry(t, current_index)

soa_shift_entries_backward(t, current_index, hash_key, probe_count) ==
    soa_shift_loop(t, current_index, hash_key, probe_count + 1)

soa_remove_table_update(t, cfg, alloc_ok) ==
    LET dec == [t EXCEPT !.active = t.active - 1]
    IN  IF u32_lt_scaled(dec.active, dec.size, cfg.min_load_factor)
           /\ dec.size > 2
        THEN soa_resize(dec, dec.size \div 2, alloc_ok).ht
        ELSE dec

\* free_entry of open_table_V1_2.c: the callbacks, then clear_entry
soa_free_entry(t, index) == clear_entry(t, index)

RECURSIVE soa_remove_loop(_, _, _, _, _, _)
soa_remove_loop(t, cfg, hash_key, key, alloc_ok, probe_count) ==
    IF probe_count >= t.size THEN [ht |-> t, res |-> HT_KEY_NOT_FOUND]
    ELSE LET current_index == probe_func(hash_key, probe_count, t.size)
         IN  IF t.keys[current_index] = NULL
             THEN [ht |-> t, res |-> HT_KEY_NOT_FOUND]
             ELSE IF /\ t.hash_keys[current_index] = hash_key
                     /\ cmp_func(t.keys[current_index], key) = 0
                  THEN [ht |-> soa_remove_table_update(
                                   soa_shift_entries_backward(
                                       soa_free_entry(t, current_index),
                                       current_index, hash_key, probe_count),
                                   cfg, alloc_ok),
                        res |-> HT_SUCCESS]
             ELSE IF t.psls[current_index] < probe_count
                  THEN [ht |-> t, res |-> HT_KEY_NOT_FOUND]
             ELSE soa_remove_loop(t, cfg, hash_key, key, alloc_ok,
                                  probe_count + 1)

soa_ht_remove(t, cfg, key, alloc_ok) ==
    soa_remove_loop(t, cfg, cfg.hash_func[key], key, alloc_ok, 0)

soa_Freed == soa_new(0)

(* ---- destructor bookkeeping --------------------------------------------- *)
RECURSIVE SumOver(_, _)
SumOver(f, S) ==
    IF S = {} THEN 0
    ELSE LET x == CHOOSE y \in S : TRUE IN f[x] + SumOver(f, S \ {x})

\* number of entries of the sequence es whose key is k
CountKey(es, k) == Cardinality({ i \in DOMAIN es : es[i].key = k })

\* owned after free_key (free_val) was invoked on every entry of es
Release(owned, es, configured) ==
    [k \in Keys |-> IF configured THEN owned[k] - CountKey(es, k) ELSE owned[k]]

\* number of occupied slots holding a NULL value reference
NullValues(t) ==
    Cardinality({ i \in DOMAIN t.table :
                    t.table[i].key # NULL /\ t.table[i].value = NULL })

\* The fields of a slot whose key is NULL are never read: every loop of
\* open_table.c tests entry->key first.  States are kept up to those fields.
Canon(t) ==
    [t EXCEPT !.table =
        [i \in DOMAIN t.table |->
            IF t.table[i].key = NULL THEN ZeroEntry ELSE t.table[i]]]

(* ---- reference map (what the tests expect of the table) ------------------ *)
RefHas(m, k) == \E e \in m : e[1] = k

RefGet(m, k) == IF RefHas(m, k) THEN (CHOOSE e \in m : e[1] = k)[2] ELSE NULL

RefInsert(m, k, v) ==
    IF RefHas(m, k) THEN [map |-> m, res |-> HT_KEY_EXISTS]
    ELSE [map |-> m \cup {<<k, v>>}, res |-> HT_SUCCESS]

RefRemove(m, k) ==
    IF RefHas(m, k)
    THEN [map |-> { e \in m : e[1] # k }, res |-> HT_SUCCESS]
    ELSE [map |-> m, res |-> HT_KEY_NOT_FOUND]

(* ---- the calls ----------------------------------------------------------- *)
InitFrom(configs, tables) ==
    /\ config \in configs
    /\ ht \in tables
    /\ alive = TRUE
    /\ op = "create"
    /\ arg_key = NULL
    /\ arg_val = NULL
    /\ result = NONE
    /\ found = NULL
    /\ alloc_failed = FALSE
    /\ owned_keys = [k \in Keys |-> 0]
    /\ owned_vals = [k \in Keys |-> 0]
    /\ ht2 = soa_new(2)
    /\ result2 = NONE
    /\ found2 = NULL
    /\ ref = {}
    /\ ref_result = NONE
    /\ arg_ht = TRUE
    /\ arg_len = 0
    /\ rejected = {}
    /\ released = {}

\* the table ht_create returns
InitWith(configs) ==
    InitFrom(configs, {[table |-> calloc_table(2), size |-> 2, active |-> 0]})

Init == InitWith(Configs)

\* ht_insert on the array-of-structs table
AosInsert(k, v, alloc_ok) ==
    /\ alive
    /\ SumOver(owned_keys, Keys) < MaxOwned
    /\ v = NULL => NullValues(ht) < MaxNull
    /\ LET r == ht_insert(ht, config, k, v, alloc_ok)
       IN  /\ ht' = Canon(r.ht)
           /\ result' = r.res
           /\ alloc_failed' = (r.res = HT_MEM_ERROR)
           /\ owned_keys' = IF r.res = HT_SUCCESS
                            THEN [owned_keys EXCEPT ![k] = @ + 1]
                            ELSE owned_keys
           /\ owned_vals' = IF r.res = HT_SUCCESS
                            THEN [owned_vals EXCEPT ![k] = @ + 1]
                            ELSE owned_vals
    /\ op' = "insert"
    /\ arg_key' = k
    /\ arg_val' = v
    /\ found' = NULL
    /\ UNCHANGED <<config, alive>>

\* ht_remove on the array-of-structs table
AosRemove(k, alloc_ok) ==
    /\ alive
    /\ LET r == ht_remove(ht, config, k, alloc_ok)
       IN  /\ ht' = Canon(r.ht)
           /\ result' = r.res
           /\ alloc_failed' = (r.shrink = HT_MEM_ERROR)
           /\ owned_keys' = Release(owned_keys, r.freed, config.free_key)
           /\ owned_vals' = Release(owned_vals, r.freed, config.free_val)
    /\ op' = "remove"
    /\ arg_key' = k
    /\ arg_val' = NULL
    /\ found' = NULL
    /\ UNCHANGED <<config, alive>>

\* a lookup that takes the entry out of the table
AosSearch_taking(k) ==
    /\ alive
    /\ found' = ht_search(ht, config, k)
    /\ ht' = Canon(ht_remove(ht, config, k, TRUE).ht)
    /\ op' = "search"
    /\ arg_key' = k
    /\ arg_val' = NULL
    /\ result' = NONE
    /\ alloc_failed' = FALSE
    /\ UNCHANGED <<config, alive, owned_keys, owned_vals>>

\* ht_search on the array-of-structs table
AosSearch(k) ==
    /\ alive
    /\ found' = ht_search(ht, config, k)
    /\ op' = "search"
    /\ arg_key' = k
    /\ arg_val' = NULL
    /\ result' = NONE
    /\ alloc_failed' = FALSE
    /\ UNCHANGED <<config, ht, alive, owned_keys, owned_vals>>

\* ht_destroy on the array-of-structs table
AosDestroy ==
    /\ alive
    /\ owned_keys' = Release(owned_keys, ht_destroy(ht), config.free_key)
    /\ owned_vals' = Release(owned_vals, ht_destroy(ht), config.free_val)
    /\ ht' = Freed
    /\ alive' = FALSE
    /\ op' = "destroy"
    /\ arg_key' = NULL
    /\ arg_val' = NULL
    /\ result' = NONE
    /\ found' = NULL
    /\ alloc_failed' = FALSE
    /\ UNCHANGED config

(* One table of open_table.c, any valid configuration, any calls. *)
Insert(k, v, alloc_ok) ==
    AosInsert(k, v, alloc_ok) /\ UNCHANGED <<soa_vars, ref_vars, call_vars, own_vars>>

Remove(k, alloc_ok) ==
    AosRemove(k, alloc_ok) /\ UNCHANGED <<soa_vars, ref_vars, call_vars, own_vars>>

Search(k) == AosSearch(k) /\ UNCHANGED <<soa_vars, ref_vars, call_vars, own_vars>>

Destroy == AosDestroy /\ UNCHANGED <<soa_vars, ref_vars, call_vars, own_vars>>

Next ==
    \/ \E k \in Keys, alloc_ok \in BOOLEAN : \E v \in Vals(k) :
           Insert(k, v, alloc_ok)
    \/ \E k \in Keys, alloc_ok \in BOOLEAN : Remove(k, alloc_ok)
    \/ \E k \in Keys : Search(k)
    \/ Destroy

Spec == Init /\ [][Next]_vars

(* The tests' table: load factors 0.75 / 0.25, non-null values, allocation  *)
(* succeeds; a reference map performs the same calls.                       *)
TestInit ==
    /\ Init
    /\ config.load_factor = Frac(3, 4)
    /\ config.min_load_factor = Frac(1, 4)

TestInsert(k, v) ==
    /\ AosInsert(k, v, TRUE)
    /\ ref' = RefInsert(ref, k, v).map
    /\ ref_result' = RefInsert(ref, k, v).res
    /\ UNCHANGED <<soa_vars, call_vars, own_vars>>

TestRemove(k) ==
    /\ AosRemove(k, TRUE)
    /\ ref' = RefRemove(ref, k).map
    /\ ref_result' = RefRemove(ref, k).res
    /\ UNCHANGED <<soa_vars, call_vars, own_vars>>

TestSearch(k) ==
    /\ AosSearch(k)
    /\ ref_result' = NONE
    /\ UNCHANGED <<ref, soa_vars, call_vars, own_vars>>

TestNext ==
    \/ \E k \in Keys : TestInsert(k, ValueOf(k))
    \/ \E k \in Keys : TestRemove(k)
    \/ \E k \in Keys : TestSearch(k)

SpecTest == TestInit /\ [][TestNext]_vars

(* Both layouts, created with the same configuration, driven by the same    *)
(* calls; values are non-null and every allocation succeeds.                *)
SoaInsert(k, v, alloc_ok) ==
    /\ ht2.active < MaxOwned
    /\ ht2' = soa_ht_insert(ht2, config, k, v, alloc_ok).ht
    /\ result2' = soa_ht_insert(ht2, config, k, v, alloc_ok).res
    /\ found2' = NULL

SoaRemove(k, alloc_ok) ==
    /\ ht2' = soa_ht_remove(ht2, config, k, alloc_ok).ht
    /\ result2' = soa_ht_remove(ht2, config, k, alloc_ok).res
    /\ found2' = NULL

SoaSearch(k) ==
    /\ found2' = soa_ht_search(ht2, config, k)
    /\ result2' = NONE
    /\ UNCHANGED ht2

SoaDestroy ==
    /\ ht2' = soa_Freed
    /\ result2' = NONE
    /\ found2' = NULL

BothInsert(k, v, alloc_ok) ==
    AosInsert(k, v, alloc_ok) /\ SoaInsert(k, v, alloc_ok) /\ UNCHANGED <<ref_vars, call_vars, own_vars>>

BothRemove(k, alloc_ok) ==
    AosRemove(k, alloc_ok) /\ SoaRemove(k, alloc_ok) /\ UNCHANGED <<ref_vars, call_vars, own_vars>>

BothSearch(k) == AosSearch(k) /\ SoaSearch(k) /\ UNCHANGED <<ref_vars, call_vars, own_vars>>

BothDestroy == AosDestroy /\ SoaDestroy /\ UNCHANGED <<ref_vars, call_vars, own_vars>>

LayoutNext ==
    \/ \E k \in Keys : BothInsert(k, ValueOf(k), TRUE)
    \/ \E k \in Keys : BothRemove(k, TRUE)
    \/ \E k \in Keys : BothSearch(k)
    \/ BothDestroy

SpecLayout == Init /\ [][LayoutNext]_vars

(* The structure-of-arrays table alone: inserts of keys not inserted yet,   *)
(* removals and searches; ref records the keys inserted and not removed.    *)
aos_vars == <<ht, alive, result, found, alloc_failed, owned_keys, owned_vals>>

SoaOnlyInsert(k, v, alloc_ok) ==
    /\ ~RefHas(ref, k)
    /\ SoaInsert(k, v, alloc_ok)
    /\ ref' = IF soa_ht_insert(ht2, config, k, v, alloc_ok).res = HT_SUCCESS
              THEN ref \cup {<<k, v>>} ELSE ref
    /\ ref_result' = NONE
    /\ op' = "insert"
    /\ arg_key' = k
    /\ arg_val' = v
    /\ UNCHANGED <<config, aos_vars, call_vars, own_vars>>

SoaOnlyRemove(k, alloc_ok) ==
    /\ SoaRemove(k, alloc_ok)
    /\ ref' = IF soa_ht_remove(ht2, config, k, alloc_ok).res = HT_SUCCESS
              THEN { e \in ref : e[1] # k } ELSE ref
    /\ ref_result' = NONE
    /\ op' = "remove"
    /\ arg_key' = k
    /\ arg_val' = NULL
    /\ UNCHANGED <<config, aos_vars, call_vars, own_vars>>

SoaOnlySearch(k) ==
    /\ SoaSearch(k)
    /\ op' = "search"
    /\ arg_key' = k
    /\ arg_val' = NULL
    /\ UNCHANGED <<config, aos_vars, ref_vars, call_vars, own_vars>>

SoaNext ==
    \/ \E k \in Keys, alloc_ok \in BOOLEAN : SoaOnlyInsert(k, ValueOf(k), alloc_ok)
    \/ \E k \in Keys, alloc_ok \in BOOLEAN : SoaOnlyRemove(k, alloc_ok)
    \/ \E k \in Keys : SoaOnlySearch(k)

SpecSoa == Init /\ [][SoaNext]_vars

(* The table of the tests called with any arguments: a NULL or non-NULL    *)
(* table pointer, a NULL or non-NULL key, a zero or non-zero key_len.       *)
SizeofInt == 4

KeyArgs == Keys \cup {NULL}

KeyLens == {0, SizeofInt}

\* the value pointer the caller passes along with key pointer k
ValueArg(k) == IF k = NULL THEN ValueOf(1) ELSE ValueOf(k)

ArgInsert(has_ht, k, len, alloc_ok) ==
    /\ alive
    /\ SumOver(owned_keys, Keys) < MaxOwned
    /\ LET r == ht_insert_checked(has_ht, ht, config, k, len, ValueArg(k),
                                  alloc_ok)
       IN  /\ ht' = Canon(r.ht)
           /\ result' = r.res
           /\ alloc_failed' = (r.res = HT_MEM_ERROR)
           /\ owned_keys' = IF r.res = HT_SUCCESS
                            THEN [owned_keys EXCEPT ![k] = @ + 1]
                            ELSE owned_keys
           /\ owned_vals' = IF r.res = HT_SUCCESS
                            THEN [owned_vals EXCEPT ![k] = @ + 1]
                            ELSE owned_vals
    /\ op' = "insert"
    /\ arg_ht' = has_ht
    /\ arg_key' = k
    /\ arg_len' = len
    /\ arg_val' = ValueArg(k)
    /\ found' = NULL
    /\ UNCHANGED <<config, alive, soa_vars, ref_vars, own_vars>>

ArgRemove(has_ht, k, len, alloc_ok) ==
    /\ alive
    /\ LET r == ht_remove_checked(has_ht, ht, config, k, len, alloc_ok)
       IN  /\ ht' = Canon(r.ht)
           /\ result' = r.res
           /\ alloc_failed' = (r.shrink = HT_MEM_ERROR)
           /\ owned_keys' = Release(owned_keys, r.freed, config.free_key)
           /\ owned_vals' = Release(owned_vals, r.freed, config.free_val)
    /\ op' = "remove"
    /\ arg_ht' = has_ht
    /\ arg_key' = k
    /\ arg_len' = len
    /\ arg_val' = NULL
    /\ found' = NULL
    /\ UNCHANGED <<config, alive, soa_vars, ref_vars, own_vars>>

ArgSearch(has_ht, k, len) ==
    /\ alive
    /\ found' = ht_search_checked(has_ht, ht, config, k, len)
    /\ op' = "search"
    /\ arg_ht' = has_ht
    /\ arg_key' = k
    /\ arg_len' = len
    /\ arg_val' = NULL
    /\ result' = NONE
    /\ alloc_failed' = FALSE
    /\ UNCHANGED <<config, ht, alive, owned_keys, owned_vals, soa_vars,
                   ref_vars, own_vars>>

ArgsNext ==
    \/ \E has_ht \in BOOLEAN, k \in KeyArgs, len \in KeyLens :
           ArgInsert(has_ht, k, len, TRUE)
    \/ \E has_ht \in BOOLEAN, k \in KeyArgs, len \in KeyLens :
           ArgRemove(has_ht, k, len, TRUE)
    \/ \E has_ht \in BOOLEAN, k \in KeyArgs, len \in KeyLens :
           ArgSearch(has_ht, k, len)

SpecArgs == TestInit /\ [][ArgsNext]_vars

(* ht_create applied to any configuration.                                 *)
FloatArgs ==
    { NaN, Frac(-1, 4), Frac(0, 1), Frac(1, 8), Frac(1, 4), Frac(1, 2),
      Frac(3, 4), Frac(1, 1), Frac(3, 2) }

CreateConfigs ==
    { [load_factor |-> lf, min_load_factor |-> mlf, hash_func |-> h,
       free_key |-> TRUE, free_val |-> TRUE] :
      lf \in FloatArgs, mlf \in FloatArgs, h \in HashFuncs }

CreateInit ==
    /\ config \in CreateConfigs
    /\ ht = Freed
    /\ alive = FALSE
    /\ op = "none"
    /\ arg_key = NULL
    /\ arg_val = NULL
    /\ result = NONE
    /\ found = NULL
    /\ alloc_failed = FALSE
    /\ owned_keys = [k \in Keys |-> 0]
    /\ owned_vals = [k \in Keys |-> 0]
    /\ ht2 = soa_new(2)
    /\ result2 = NONE
    /\ found2 = NULL
    /\ ref = {}
    /\ ref_result = NONE
    /\ arg_ht = TRUE
    /\ arg_len = 0
    /\ rejected = {}
    /\ released = {}

Create(alloc_ok) ==
    /\ op = "none"
    /\ ht' = ht_create(config, alloc_ok).ht
    /\ alive' = ht_create(config, alloc_ok).ok
    /\ alloc_failed' = ~alloc_ok
    /\ op' = "create"
    /\ UNCHANGED <<config, arg_key, arg_val, result, found, owned_keys,
                   owned_vals, soa_vars, ref_vars, call_vars, own_vars>>

CreateNext == \E alloc_ok \in BOOLEAN : Create(alloc_ok)

SpecCreate == CreateInit /\ [][CreateNext]_vars

\* load_factor is in (0, 1] and min_load_factor is in [0, load_factor)
InRange(load_factor, min_load_factor) ==
    /\ ~IsNaN(load_factor)
    /\ ~IsNaN(min_load_factor)
    /\ load_factor.num > 0
    /\ load_factor.num <= load_factor.den
    /\ min_load_factor.num >= 0
    /\ min_load_factor.num * load_factor.den
         < load_factor.num * min_load_factor.den

(* Ownership: every ht_insert passes pointers the table does not hold, a    *)
(* key pointer of its own or a second pointer to an equal key; the table    *)
(* may have been created with a NaN load factor, which ht_create accepts.   *)
MaxRejected == 1    \* rejected key/value pairs the caller keeps at a time

OwnConfigs ==
    { [load_factor |-> lf[1], min_load_factor |-> lf[2], hash_func |-> h,
       free_key |-> TRUE, free_val |-> TRUE] :
      lf \in { p \in { <<Frac(3, 4), Frac(1, 4)>>, <<NaN, Frac(0, 1)>> } :
                 validate_load_factors(p[1], p[2]) = HT_SUCCESS },
      h \in HashFuncs }

OwnInit == InitWith(OwnConfigs)

\* the value pointer passed along with key pointer ptr
OwnValue(ptr) ==
    IF ptr = NULL THEN ValueOf(2 * MaxKey + 1) ELSE ValueOf(ptr)

\* the key and value pointers the slots hold
Held(t) ==
    ({ t.table[i].key : i \in DOMAIN t.table }
       \cup { t.table[i].value : i \in DOMAIN t.table }) \ {NULL}

\* the pointers free_entry hands to the configured destructors
Destructed(cfg, es) ==
    ((IF cfg.free_key THEN { es[i].key : i \in DOMAIN es } ELSE {})
       \cup (IF cfg.free_val THEN { es[i].value : i \in DOMAIN es } ELSE {}))
    \ {NULL}

\* <<table pointer not NULL, key pointer, key_len>>
InsertArgs ==
    { <<TRUE, ptr, SizeofInt>> : ptr \in Keys \cup Aliases }
      \cup { <<FALSE, 1, SizeofInt>>, <<TRUE, NULL, SizeofInt>>, <<TRUE, 1, 0>> }

OwnInsert(has_ht, ptr, len, alloc_ok) ==
    /\ alive
    /\ ht.active < MaxOwned
    /\ {ptr, OwnValue(ptr)} \cap Held(ht) = {}
    /\ LET r == ht_insert_checked(has_ht, ht, config, ptr, len, OwnValue(ptr),
                                  alloc_ok)
       IN  /\ ht' = Canon(r.ht)
           /\ result' = r.res
           /\ alloc_failed' = (r.res = HT_MEM_ERROR)
           /\ rejected' = IF r.res = HT_SUCCESS
                          THEN rejected \ {ptr, OwnValue(ptr)}
                          ELSE rejected \cup ({ptr, OwnValue(ptr)} \ {NULL})
    /\ Cardinality(rejected') <= 2 * MaxRejected
    /\ released' = {}
    /\ op' = "insert"
    /\ arg_ht' = has_ht
    /\ arg_key' = ptr
    /\ arg_len' = len
    /\ arg_val' = OwnValue(ptr)
    /\ found' = NULL
    /\ UNCHANGED <<config, alive, owned_keys, owned_vals, soa_vars, ref_vars>>

OwnRemove(k, alloc_ok) ==
    /\ alive
    /\ LET r == ht_remove(ht, config, k, alloc_ok)
       IN  /\ ht' = Canon(r.ht)
           /\ result' = r.res
           /\ alloc_failed' = (r.shrink = HT_MEM_ERROR)
           /\ released' = Destructed(config, r.freed)
    /\ op' = "remove"
    /\ arg_ht' = TRUE
    /\ arg_key' = k
    /\ arg_len' = SizeofInt
    /\ arg_val' = NULL
    /\ found' = NULL
    /\ UNCHANGED <<config, alive, owned_keys, owned_vals, soa_vars, ref_vars,
                   rejected>>

OwnDestroy ==
    /\ alive
    /\ released' = Destructed(config, ht_destroy(ht))
    /\ ht' = Freed
    /\ alive' = FALSE
    /\ op' = "destroy"
    /\ arg_ht' = TRUE
    /\ arg_key' = NULL
    /\ arg_len' = 0
    /\ arg_val' = NULL
    /\ result' = NONE
    /\ found' = NULL
    /\ alloc_failed' = FALSE
    /\ UNCHANGED <<config, owned_keys, owned_vals, soa_vars, ref_vars,
                   rejected>>

OwnNext ==
    \/ \E a \in InsertArgs, alloc_ok \in BOOLEAN :
           OwnInsert(a[1], a[2], a[3], alloc_ok)
    \/ \E k \in Keys, alloc_ok \in BOOLEAN : OwnRemove(k, alloc_ok)
    \/ OwnDestroy

SpecOwn == OwnInit /\ [][OwnNext]_vars

(* The tests' scripted scenarios: keys 1..n stand for the tests' keys      *)
(* 0..n-1, inserted, removed and looked up in ascending order, the position *)
(* in the script being the last call's op and key.                          *)
NumInserted == 10   \* test_table_resize_downward inserts keys 0..9
NumRemoved == 8     \* and removes keys 0..7
NumColliding == 5   \* test_insert_with_constant_hash inserts keys 0..4

ScnConfigs(hashes) ==
    { [load_factor |-> Frac(3, 4), min_load_factor |-> Frac(1, 4),
       hash_func |-> h, free_key |-> TRUE, free_val |-> TRUE] : h \in hashes }

\* hash functions over the keys of the resize scenario: constant, one bucket
\* per key, strides that collide at small capacities, with offsets
ResizeHashFuncs ==
    { [k \in 1..NumInserted |-> a * k + b] :
      a \in {0, 1, 3, 8, 16}, b \in {0, 5, 42} }

\* constant_hash_func returns 42; any other constant collides as well
ConstantHashFuncs ==
    { [k \in 1..NumColliding |-> c] : c \in {0, 1, 2, 3, 7, 8, 15, 16, 42, 255} }

ScnInsert(n) ==
    /\ alive
    /\ op \in {"create", "insert"}
    /\ LET k == IF op = "create" THEN 1 ELSE arg_key + 1
           r == ht_insert(ht, config, k, ValueOf(k), TRUE)
       IN  /\ k <= n
           /\ ht' = Canon(r.ht)
           /\ result' = r.res
           /\ arg_key' = k
           /\ arg_val' = ValueOf(k)
    /\ op' = "insert"
    /\ found' = NULL
    /\ UNCHANGED <<config, alive, alloc_failed, owned_keys, owned_vals,
                   soa_vars, ref_vars, call_vars, own_vars>>

ScnRemove(after, n) ==
    /\ alive
    /\ \/ op = "insert" /\ arg_key = after
       \/ op = "remove" /\ arg_key < n
    /\ LET k == IF op = "insert" THEN 1 ELSE arg_key + 1
           r == ht_remove(ht, config, k, TRUE)
       IN  /\ ht' = Canon(r.ht)
           /\ result' = r.res
           /\ arg_key' = k
    /\ op' = "remove"
    /\ arg_val' = NULL
    /\ found' = NULL
    /\ UNCHANGED <<config, alive, alloc_failed, owned_keys, owned_vals,
                   soa_vars, ref_vars, call_vars, own_vars>>

ScnSearch(prev, after, n) ==
    /\ alive
    /\ \/ op = prev /\ arg_key = after
       \/ op = "search" /\ arg_key < n
    /\ LET k == IF op = prev THEN 1 ELSE arg_key + 1
       IN  /\ found' = ht_search(ht, config, k)
           /\ arg_key' = k
    /\ op' = "search"
    /\ arg_val' = NULL
    /\ result' = NONE
    /\ UNCHANGED <<config, ht, alive, alloc_failed, owned_keys, owned_vals,
                   soa_vars, ref_vars, call_vars, own_vars>>

\* the table after keys 1..n were inserted into t
RECURSIVE ScnInserted(_, _, _, _)
ScnInserted(t, cfg, k, n) ==
    IF k > n THEN t
    ELSE ScnInserted(ht_insert(t, cfg, k, ValueOf(k), TRUE).ht, cfg, k + 1, n)

ResizeNext ==
    \/ ScnInsert(NumInserted)
    \/ ScnRemove(NumInserted, NumRemoved)
    \/ ScnSearch("remove", NumRemoved, NumInserted)

SpecResize ==
    InitWith(ScnConfigs(ResizeHashFuncs)) /\ [][ResizeNext]_vars

CollideNext ==
    \/ ScnInsert(NumColliding)
    \/ ScnSearch("insert", NumColliding, NumColliding)

SpecCollide ==
    InitWith(ScnConfigs(ConstantHashFuncs)) /\ [][CollideNext]_vars

(* Growth: the insert loop of test_extreme_load_factors (0.1 / 0.05), run  *)
(* one insert further than the test, next to the default thresholds.        *)
NumExtreme == 5     \* test_extreme_load_factors inserts keys 0..4

ExtremeConfigs ==
    ScnConfigs(ResizeHashFuncs)
      \cup { [c EXCEPT !.load_factor = Frac(1, 10),
                       !.min_load_factor = Frac(1, 20)] :
             c \in ScnConfigs(ResizeHashFuncs) }

ExtremeNext == ScnInsert(NumExtreme + 1)

SpecExtreme == InitWith(ExtremeConfigs) /\ [][ExtremeNext]_vars

(* Capacity limit: ht_insert and ht_search on a full table of capacity n   *)
(* (load_factor 1.0) whose slot j holds, at its home position, a key other  *)
(* than the keys passed in calls; n goes up to 2^30, the largest capacity   *)
(* validate_size lets a table reach.  Of a store of more than MaxStore      *)
(* slots only the first MaxStore are represented: the calls made here probe *)
(* no slot beyond them.                                                     *)
MaxStore == 64

FullTable(n) ==
    [table |-> [j \in 0..((IF n < MaxStore THEN n ELSE MaxStore) - 1) |->
                   HTentry(j, 0, MaxKey + 1 + j, MaxKey + 1 + j)],
     size |-> n, active |-> n]

LimitInit ==
    InitFrom({ c \in Configs : c.load_factor = Frac(1, 1) },
             { FullTable(n) : n \in {2, 4, 8, UINT32_MAX_DIV_2 \div 2 + 1} })

LimitNext ==
    \/ \E k \in Keys, alloc_ok \in BOOLEAN : \E v \in Vals(k) :
           Insert(k, v, alloc_ok)
    \/ \E k \in Keys : Search(k)

SpecLimit == LimitInit /\ [][LimitNext]_vars

(* ---- robin_hood.c: the table with a pluggable probe function ------------ *)
(* The table is a record like that of open_table.c; config carries the      *)
(* probe function p the table was created with.  search_ht returns an index *)
(* or a negative code: res is HT_SUCCESS with the index, or the code.       *)
HT_INVALID_STATE == "HT_INVALID_STATE"

\* linear_probe_func / default_probe_func and quadratic_probe_func
rh_p(cfg, k, i, m) ==
    IF cfg.p = "quadratic" THEN (k + i * i) % m ELSE BitAnd(k + i, m - 1)

RECURSIVE rh_search_loop(_, _, _, _, _)
rh_search_loop(t, cfg, hash_key, key, i) ==
    IF i >= t.size THEN [res |-> HT_INVALID_STATE, index |-> -1]
    ELSE LET index == rh_p(cfg, hash_key, i, t.size)
             entry == t.table[index]
         IN  IF entry.key = NULL THEN [res |-> HT_KEY_NOT_FOUND, index |-> -1]
             ELSE IF entry.hash_key = hash_key /\ cmp_func(entry.key, key) = 0
                  THEN [res |-> HT_SUCCESS, index |-> index]
             ELSE IF entry.psl < i THEN [res |-> HT_KEY_NOT_FOUND, index |-> -1]
             ELSE rh_search_loop(t, cfg, hash_key, key, i + 1)

search_ht(t, cfg, key) ==
    rh_search_loop(t, cfg, cfg.hash_func[Deref(key)], key, 0)

\* insert_entry of robin_hood.c
RECURSIVE rh_insert_entry(_, _, _, _, _)
rh_insert_entry(t, cfg, hash_key, new_entry, i) ==
    IF i >= t.size THEN [ht |-> t, res |-> HT_FAILURE]
    ELSE LET index == rh_p(cfg, hash_key, i, t.size)
             entry == t.table[index]
         IN  IF entry.key = NULL
             THEN [ht |-> [t EXCEPT !.table[index] = new_entry,
                                    !.active = t.active + 1],
                   res |-> HT_SUCCESS]
             ELSE IF new_entry.psl > entry.psl
                  THEN rh_insert_entry([t EXCEPT !.table[index] = new_entry],
                                       cfg, hash_key,
                                       [entry EXCEPT !.psl = entry.psl + 1],
                                       i + 1)
             ELSE rh_insert_entry(t, cfg, hash_key,
                                  [new_entry EXCEPT !.psl = new_entry.psl + 1],
                                  i + 1)

\* rehash_entries of robin_hood.c: the result of insert_entry is not looked at
RECURSIVE rh_rehash_entries(_, _, _, _)
rh_rehash_entries(t, cfg, old_table, i) ==
    IF i \notin DOMAIN old_table THEN t
    ELSE IF old_table[i].key # NULL
         THEN rh_rehash_entries(
                  rh_insert_entry(t, cfg, old_table[i].hash_key,
                                  HTentry(old_table[i].hash_key, 0,
                                          old_table[i].key, old_table[i].value),
                                  0).ht,
                  cfg, old_table, i + 1)
    ELSE rh_rehash_entries(t, cfg, old_table, i + 1)

\* resize of robin_hood.c: no test of new_size
rh_resize(t, cfg, new_size) ==
    rh_rehash_entries([table |-> calloc_table(new_size), size |-> new_size,
                       active |-> 0],
                      cfg, t.table, 0)

insert_ht(t, cfg, key, value) ==
    IF search_ht(t, cfg, key).index >= 0 THEN [ht |-> t, res |-> HT_KEY_EXISTS]
    ELSE LET grown == IF u32_gt_scaled(t.active + 1, t.size, cfg.load_factor)
                      THEN rh_resize(t, cfg, t.size * 2)
                      ELSE t
         IN  rh_insert_entry(grown, cfg, cfg.hash_func[Deref(key)],
                             HTentry(cfg.hash_func[Deref(key)], 0, key, value), 0)

\* the backward shift of remove_ht; i is the value after the ++ of the code
RECURSIVE rh_shift_loop(_, _, _, _, _)
rh_shift_loop(t, cfg, index, hash_key, i) ==
    LET next_index == rh_p(cfg, hash_key, i, t.size)
    IN  IF t.table[next_index].key # NULL /\ t.table[next_index].psl > 0
        THEN rh_shift_loop(
                 [t EXCEPT !.table[index] =
                     [t.table[next_index] EXCEPT !.psl = @ - 1]],
                 cfg, next_index, hash_key, i + 1)
        ELSE [t EXCEPT !.table[index].key = NULL, !.active = t.active - 1]

RECURSIVE rh_remove_loop(_, _, _, _, _)
rh_remove_loop(t, cfg, hash_key, key, i) ==
    IF i >= t.size THEN [ht |-> t, res |-> HT_KEY_NOT_FOUND]
    ELSE LET index == rh_p(cfg, hash_key, i, t.size)
             entry == t.table[index]
         IN  IF entry.key = NULL THEN [ht |-> t, res |-> HT_KEY_NOT_FOUND]
             ELSE IF entry.hash_key = hash_key /\ cmp_func(entry.key, key) = 0
                  THEN LET shifted ==
                               rh_shift_loop(
                                   [t EXCEPT !.table[index].key = NULL,
                                             !.table[index].value = NULL],
                                   cfg, index, hash_key, i + 1)
                       IN  [ht |-> IF u32_lt_scaled(shifted.active, shifted.size,
                                                    cfg.min_load_factor)
                                   THEN rh_resize(shifted, cfg,
                                                  shifted.size \div 2)
                                   ELSE shifted,
                            res |-> HT_SUCCESS]
             ELSE IF entry.psl < i THEN [ht |-> t, res |-> HT_KEY_NOT_FOUND]
             ELSE rh_remove_loop(t, cfg, hash_key, key, i + 1)

remove_ht(t, cfg, key) ==
    rh_remove_loop(t, cfg, cfg.hash_func[Deref(key)], key, 0)

\* init_ht with the default load factors of the tests' setUp (0.5 / 0.25) and
\* with load_factor 1.0, with the linear and the quadratic probe function
RhConfigs ==
    { [load_factor |-> lf, min_load_factor |-> Frac(1, 4), hash_func |-> h,
       p |-> p, free_key |-> TRUE, free_val |-> TRUE] :
      lf \in {Frac(1, 2), Frac(1, 1)}, h \in HashFuncs,
      p \in {"linear", "quadratic"} }

\* ref follows the results: the keys insert_ht accepted and remove_ht has not
\* removed
RhInsert(k) ==
    /\ alive
    /\ ht.active < MaxOwned
    /\ LET r == insert_ht(ht, config, k, ValueOf(k))
       IN  /\ ht' = Canon(r.ht)
           /\ result' = r.res
           /\ ref' = IF r.res = HT_SUCCESS
                     THEN ref \cup {<<k, ValueOf(k)>>} ELSE ref
    /\ op' = "insert"
    /\ arg_key' = k
    /\ arg_val' = ValueOf(k)
    /\ found' = NULL
    /\ UNCHANGED <<config, alive, alloc_failed, owned_keys, owned_vals,
                   soa_vars, ref_result, call_vars, own_vars>>

RhRemove(k) ==
    /\ alive
    /\ LET r == remove_ht(ht, config, k)
       IN  /\ ht' = Canon(r.ht)
           /\ result' = r.res
           /\ ref' = IF r.res = HT_SUCCESS
                     THEN { e \in ref : e[1] # k } ELSE ref
    /\ op' = "remove"
    /\ arg_key' = k
    /\ arg_val' = NULL
    /\ found' = NULL
    /\ UNCHANGED <<config, alive, alloc_failed, owned_keys, owned_vals,
                   soa_vars, ref_result, call_vars, own_vars>>

\* search_ht, then fetch_ht on the index it returned
RhSearch(k) ==
    /\ alive
    /\ LET r == search_ht(ht, config, k)
       IN  /\ result' = r.res
           /\ found' = IF r.index >= 0 THEN ht.table[r.index].value ELSE NULL
    /\ op' = "search"
    /\ arg_key' = k
    /\ arg_val' = NULL
    /\ UNCHANGED <<config, ht, alive, alloc_failed, owned_keys, owned_vals,
                   soa_vars, ref_vars, call_vars, own_vars>>

RhNext ==
    \/ \E k \in Keys : RhInsert(k)
    \/ \E k \in Keys : RhRemove(k)
    \/ \E k \in Keys : RhSearch(k)

SpecRh == InitWith(RhConfigs) /\ [][RhNext]_vars

(* insert_ht with a NULL key.  insert_ht tests only the table pointer, so    *)
(* the key reaches hash_func, cmp_func and insert_entry.  What hash_func     *)
(* returns for NULL is part of the configuration (a hash function that does  *)
(* not read the key, or key_len 0); a hash_func or cmp_func that reads       *)
(* through the pointer has undefined behaviour, whose outcomes are ub:       *)
(*   "crash"  the process is stopped by the access (no result),              *)
(*   "equal"  cmp_func(resident, NULL) returned 0,                           *)
(*   "none"   no access, or cmp_func returned a non-zero value.              *)
(* The load factors are the defaults of the tests' setUp.                    *)
RhNullConfigs ==
    { [c EXCEPT !.hash_func = [k \in Keys \cup {NULL} |->
                                   IF k = NULL THEN h ELSE c.hash_func[k]]] :
      c \in { d \in RhConfigs : d.load_factor = Frac(1, 2) }, h \in {0, 42} }

RhInsertNull(ub) ==
    /\ alive
    /\ ht.active < MaxOwned
    /\ LET compared == \E k \in Keys :
                           rh_search_loop(ht, config, config.hash_func[NULL],
                                          k, 0).index >= 0
           r == insert_ht(ht, config, NULL, ValueOf(1))
       IN  \/ /\ ub = "crash"
              /\ alive' = FALSE
              /\ result' = NONE
              /\ ht' = ht
           \/ /\ ub = "equal"
              /\ compared
              /\ alive' = alive
              /\ result' = HT_KEY_EXISTS
              /\ ht' = ht
           \/ /\ ub = "none"
              /\ alive' = alive
              /\ result' = r.res
              /\ ht' = Canon(r.ht)
    /\ op' = "insert"
    /\ arg_key' = NULL
    /\ arg_val' = ValueOf(1)
    /\ found' = NULL
    /\ UNCHANGED <<config, alloc_failed, owned_keys, owned_vals,
                   soa_vars, ref_vars, call_vars, own_vars>>

RhNullNext ==
    \/ RhNext
    \/ \E ub \in {"crash", "equal", "none"} : RhInsertNull(ub)

SpecRhNull == InitWith(RhNullConfigs) /\ [][RhNullNext]_vars

(* ---- properties ---------------------------------------------------------- *)
\* key k is held by some slot of the store
Stored(t, k) == CountKey(t.table, k) > 0

\* the slot at step i of key's probe sequence holds the key (the match test of
\* ht_search)
Match(t, hash_key, key, i) ==
    LET entry == t.table[probe_func(hash_key, i, t.size)]
    IN  /\ entry.key # NULL
        /\ entry.hash_key = hash_key
        /\ cmp_func(entry.key, key) = 0

\* the walk of ht_search stops at step i without a match
StopsAt(t, hash_key, key, i) ==
    LET entry == t.table[probe_func(hash_key, i, t.size)]
    IN  \/ entry.key = NULL
        \/ ~Match(t, hash_key, key, i) /\ entry.psl < i

RECURSIVE IsPowerOfTwo(_)
IsPowerOfTwo(n) ==
    IF n <= 1 THEN n = 1 ELSE n % 2 = 0 /\ IsPowerOfTwo(n \div 2)

\* C1: a successful ht_insert(k, v) with a non-null v of a key no slot held
\* before the call, whatever calls came before it and whether or not it grew
\* the table, is followed by an ht_search(k) that returns exactly v.
C1_RoundTrip ==
    [][ ( /\ op' = "insert"
          /\ result' = HT_SUCCESS
          /\ arg_val' # NULL
          /\ ~Stored(ht, arg_key') )
        => ht_search(ht', config, arg_key') = arg_val' ]_vars

\* an insert that succeeded with a non-null value in a table that has grown
\* and holds displaced entries, the key being found with its value
C1_Witness ==
    /\ op = "insert"
    /\ result = HT_SUCCESS
    /\ arg_val # NULL
    /\ CountKey(ht.table, arg_key) = 1
    /\ ht.size >= 4
    /\ \E i \in DOMAIN ht.table : ht.table[i].key # NULL /\ ht.table[i].psl >= 2
    /\ ht_search(ht, config, arg_key) = arg_val

\* C2: under load factors 0.75 / 0.25 with non-null values, every result of
\* ht_insert and ht_remove and the answer of ht_search for every key agree
\* with the reference map that performed the same calls.
C2_ReferenceMap ==
    /\ op \in {"insert", "remove"} => result = ref_result
    /\ \A k \in Keys : ht_search(ht, config, k) = RefGet(ref, k)
    /\ op = "search" => found = RefGet(ref, arg_key)

\* a removal that shrank the table from 8 slots to 4, one key left
C2_Witness ==
    /\ op = "remove"
    /\ result = HT_SUCCESS
    /\ ref_result = HT_SUCCESS
    /\ Cardinality(ref) = 1
    /\ ht.size = 4

\* C3: a grow inside ht_insert or a shrink inside ht_remove leaves the answer
\* of ht_search for every key other than the call's own as it was before.
C3_ResizeTransparency ==
    [][ ( /\ op' \in {"insert", "remove"}
          /\ ht_capacity(ht') # ht_capacity(ht) )
        => \A k \in Keys \ {arg_key'} :
               ht_search(ht', config, k) = ht_search(ht, config, k) ]_vars

\* C4: ht_insert of a key some slot holds, whatever value it holds, returns
\* HT_KEY_EXISTS and leaves capacity, active count and every slot unchanged.
C4_NoDuplicates ==
    [][ (op' = "insert" /\ Stored(ht, arg_key'))
        => (result' = HT_KEY_EXISTS /\ ht' = ht) ]_vars

\* C5: once ht_remove(k) has returned HT_SUCCESS, ht_search(k) reports not
\* found and a second ht_remove(k) returns HT_KEY_NOT_FOUND.
C5_DeletionCompleteness ==
    [][ /\ (op' = "remove" /\ result' = HT_SUCCESS)
             => ht_search(ht', config, arg_key') = NULL
        /\ ( /\ op = "remove" /\ result = HT_SUCCESS
             /\ op' = "remove" /\ arg_key' = arg_key )
             => result' = HT_KEY_NOT_FOUND ]_vars

\* C6: for every key k and probe step i, when no step before i matched k and
\* the slot at step i is empty, or is occupied by another entry with psl < i,
\* then no slot of the table holds k.
C6_EarlyTermination ==
    alive =>
        \A k \in Keys : \A i \in 0..(ht.size - 1) :
            ( /\ \A j \in 0..(i - 1) : ~Match(ht, config.hash_func[k], k, j)
              /\ StopsAt(ht, config.hash_func[k], k, i) )
            => ~Stored(ht, k)

\* after a removal with a backward shift, a walk for an absent key is cut
\* short at step 1 by an occupied slot with psl 0
C6_Witness ==
    /\ op = "remove"
    /\ result = HT_SUCCESS
    /\ ht.size >= 4
    /\ \E k \in Keys :
          LET h == config.hash_func[k]
              entry == ht.table[probe_func(h, 1, ht.size)]
          IN  /\ ~Stored(ht, k)
              /\ ht.table[probe_func(h, 0, ht.size)].key # NULL
              /\ entry.key # NULL
              /\ entry.psl < 1

\* C7: while the table lives, ht_capacity is a power of two and at least 2.
C7_CapacityPowerOfTwo ==
    alive => IsPowerOfTwo(ht_capacity(ht)) /\ ht_capacity(ht) >= 2

\* a removal that left two entries in two slots: the table had grown and the
\* removal shrank it to the floor
C7_Witness ==
    /\ alive
    /\ op = "remove"
    /\ result = HT_SUCCESS
    /\ ht_capacity(ht) = 2
    /\ ht.active = 2

\* C8: capacity increases only in an ht_insert of an absent key made when
\* active + 1 > capacity * load_factor, decreases only in a successful
\* ht_remove from a capacity above 2 after which active is below
\* capacity * min_load_factor, and is left alone by ht_search and by a failed
\* ht_insert or ht_remove.
C8_ResizeTriggers ==
    [][ /\ (alive' /\ ht_capacity(ht') > ht_capacity(ht))
             => ( /\ op' = "insert"
                  /\ ~Stored(ht, arg_key')
                  /\ grow_needed(ht, config) )
        /\ (alive' /\ ht_capacity(ht') < ht_capacity(ht))
             => ( /\ op' = "remove"
                  /\ result' = HT_SUCCESS
                  /\ ht_capacity(ht) > 2
                  /\ u32_lt_scaled(ht.active - 1, ht.size,
                                   config.min_load_factor) )
        /\ ( \/ op' = "search"
             \/ op' \in {"insert", "remove"} /\ result' # HT_SUCCESS )
             => ht_capacity(ht') = ht_capacity(ht) ]_vars

\* C9: every entry inserted successfully has its key and its value handed to
\* the destructors exactly once, at the ht_remove that removes it or at
\* ht_destroy: the entries not yet released are the entries the store holds,
\* and none is left after ht_destroy.
C9_DestructorOnce ==
    \A k \in Keys :
        /\ owned_keys[k] = IF alive THEN CountKey(ht.table, k) ELSE 0
        /\ owned_vals[k] = IF alive THEN CountKey(ht.table, k) ELSE 0

\* C10: the two layouts, given the same configuration and the same calls,
\* return the same result codes, the same ht_search answers and report the
\* same capacity.
C10_LayoutEquivalence ==
    /\ result2 = result
    /\ found2 = found
    /\ alive => ht_capacity(ht2) = ht_capacity(ht)

\* C11: in the structure-of-arrays table, after any inserts of distinct keys
\* and any removals, every key inserted and not removed is returned by
\* ht_search with the value it was inserted with.
C11_SoaRetrieval ==
    \A e \in ref : soa_ht_search(ht2, config, e[1]) = e[2]

\* C12: when the allocation of the doubled store fails inside ht_insert, the
\* call returns HT_MEM_ERROR, the key is not stored and capacity, active
\* count and every slot are as before the call.
C12_GrowthFailureAtomic ==
    [][ /\ (op' = "insert" /\ alloc_failed')
             => ( /\ result' = HT_MEM_ERROR
                  /\ ht' = ht
                  /\ owned_keys' = owned_keys
                  /\ owned_vals' = owned_vals )
        /\ alive =>
             \A k \in Keys : \A v \in Vals(k) :
                 (ht_search(ht, config, k) = NULL /\ grow_needed(ht, config))
                 => ht_insert(ht, config, k, v, FALSE)
                      = [ht |-> ht, res |-> HT_MEM_ERROR] ]_vars

\* an insert of an absent key into a grown table holding a displaced entry
\* whose allocation of the doubled store failed
C12_Witness ==
    /\ op = "insert"
    /\ alloc_failed
    /\ result = HT_MEM_ERROR
    /\ ~Stored(ht, arg_key)
    /\ grow_needed(ht, config)
    /\ ht.size >= 4
    /\ \E i \in DOMAIN ht.table : ht.table[i].key # NULL /\ ht.table[i].psl >= 1

\* C13: ht_insert and ht_remove return HT_INVALID_ARG and ht_search returns
\* NULL whenever the table pointer is NULL, the key is NULL or key_len is 0,
\* and the call leaves capacity, active count and slots unchanged and invokes
\* no destructor.
C13_ArgumentValidation ==
    [][ (~arg_ht' \/ arg_key' = NULL \/ arg_len' = 0)
        => ( /\ op' \in {"insert", "remove"} => result' = HT_INVALID_ARG
             /\ op' = "search" => found' = NULL
             /\ ht' = ht
             /\ owned_keys' = owned_keys
             /\ owned_vals' = owned_vals ) ]_vars

\* ht_remove of a stored key with key_len 0 on a grown table, rejected
C13_Witness ==
    /\ op = "remove"
    /\ arg_ht
    /\ arg_key # NULL
    /\ arg_len = 0
    /\ result = HT_INVALID_ARG
    /\ Stored(ht, arg_key)
    /\ ht.size >= 4

\* C14: when its allocations succeed, ht_create returns no table exactly
\* when load_factor is not in (0, 1] or min_load_factor is not in
\* [0, load_factor), and otherwise a table with capacity 2, active count 0
\* and every slot empty.
C14_CreateValidation ==
    (op = "create" /\ ~alloc_failed)
    => /\ alive <=> InRange(config.load_factor, config.min_load_factor)
       /\ alive => ( /\ ht_capacity(ht) = 2
                     /\ ht.active = 0
                     /\ \A i \in DOMAIN ht.table : ht.table[i].key = NULL )

\* C15: ht_remove(k) of a key no slot holds returns HT_KEY_NOT_FOUND and
\* leaves capacity, active count and every slot unchanged, with no destructor
\* call.
C15_RemoveAbsent ==
    [][ (op' = "remove" /\ ~Stored(ht, arg_key'))
        => ( /\ result' = HT_KEY_NOT_FOUND
             /\ ht' = ht
             /\ owned_keys' = owned_keys
             /\ owned_vals' = owned_vals ) ]_vars

\* a removal of an absent key whose walk starts on an occupied slot of a grown
\* table
C15_Witness ==
    /\ op = "remove"
    /\ result = HT_KEY_NOT_FOUND
    /\ ~Stored(ht, arg_key)
    /\ ht.size >= 4
    /\ ht.active >= 2
    /\ ht.table[probe_func(config.hash_func[arg_key], 0, ht.size)].key # NULL

\* C16: after an ht_insert that returned anything other than HT_SUCCESS, no
\* slot holds the rejected key or value pointer, and neither that call nor
\* any later ht_remove or ht_destroy hands them to a destructor.
C16_RejectedNotOwned ==
    /\ rejected \cap Held(ht) = {}
    /\ rejected \cap released = {}

\* C17: ht_search never mutates state: over every ht_search call, for a key
\* that is present or absent, the capacity, the active count and every
\* slot's hash, psl, key and value are the same before and after, and no
\* destructor runs.
C17_SearchReadOnly ==
    [][op' = "search" =>
          /\ ht'.size = ht.size
          /\ ht'.active = ht.active
          /\ \A i \in DOMAIN ht.table : ht'.table[i] = ht.table[i]
          /\ DOMAIN ht'.table = DOMAIN ht.table
          /\ owned_keys' = owned_keys
          /\ owned_vals' = owned_vals]_vars

\* a present key was looked up in a table that has grown and holds three keys
C17_Witness ==
    /\ op = "search"
    /\ found # NULL
    /\ ht.size > 2
    /\ ht.active >= 3

\* C18: with load_factor 0.75 and min_load_factor 0.25 and any hash
\* function, the inserts of keys 0..9 into a fresh table all succeed and
\* leave capacity >= 16; the removals of keys 0..7 all succeed and leave a
\* capacity strictly smaller than after the inserts; the lookups that follow
\* return the original values of 8 and 9 and nothing for each of 0..7.
C18_GrowShrinkScenario ==
    /\ op = "insert" => result = HT_SUCCESS
    /\ (op = "insert" /\ arg_key = NumInserted) => ht.size >= 16
    /\ op = "remove" => result = HT_SUCCESS
    /\ (op = "remove" /\ arg_key = NumRemoved) =>
           ht.size < ScnInserted([table |-> calloc_table(2), size |-> 2,
                                  active |-> 0],
                                 config, 1, NumInserted).size
    /\ op = "search" =>
           found = IF arg_key > NumRemoved THEN ValueOf(arg_key) ELSE NULL

\* the last lookup of the script found key 9 in the shrunk table
C18_Witness ==
    /\ op = "search"
    /\ arg_key = NumInserted
    /\ found = ValueOf(NumInserted)
    /\ ht.size < 16
    /\ ht.active = NumInserted - NumRemoved

\* C19: with a hash function returning the same constant for every key
\* (load_factor 0.75, min_load_factor 0.25), inserting 5 distinct keys
\* returns HT_SUCCESS every time, and afterwards ht_search of each of the 5
\* keys returns that key's own value.
C19_TotalCollision ==
    /\ op = "insert" => result = HT_SUCCESS
    /\ op = "search" => found = ValueOf(arg_key)

\* the fifth key was found behind four colliding entries
C19_Witness ==
    /\ op = "search"
    /\ arg_key = NumColliding
    /\ found = ValueOf(NumColliding)
    /\ ht.active = NumColliding
    /\ \E i \in DOMAIN ht.table :
           ht.table[i].key # NULL /\ ht.table[i].psl = NumColliding - 1

\* C20: with load_factor 1.0 and min_load_factor 0.0, once two distinct keys
\* fill the capacity-2 table, ht_insert of a third distinct key (allocation
\* succeeding) returns HT_FAILURE and the table is not resized.
C20_FullTableInsert ==
    [][( /\ config.load_factor = Frac(1, 1)
         /\ config.min_load_factor = Frac(0, 1)
         /\ ht.size = 2
         /\ ht.active = 2
         /\ op' = "insert"
         /\ cmp_func(ht.table[0].key, ht.table[1].key) # 0
         /\ \A i \in DOMAIN ht.table : cmp_func(ht.table[i].key, arg_key') # 0
         /\ ~alloc_failed' )
       => /\ result' = HT_FAILURE
          /\ ht'.size = 2]_vars

\* C21 (as stated): whenever ht_insert is called with an absent key while
\* active + 1 > capacity * load_factor and allocation succeeds, the capacity
\* after the call is exactly twice the capacity before it; with load_factor
\* 0.1 and min_load_factor 0.05 every insert of a new key strictly increases
\* the capacity.
C21_EveryInsertGrows ==
    [][( /\ op' = "insert"
         /\ ~Stored(ht, arg_key')
         /\ ~alloc_failed' )
       => /\ (ht.active + 1) * config.load_factor.den
                 > ht.size * config.load_factor.num
             => ht'.size = 2 * ht.size
          /\ (config.load_factor = Frac(1, 10)
                 /\ config.min_load_factor = Frac(1, 20))
             => ht'.size > ht.size]_vars

\* C21 (amended): whenever ht_insert is called with an absent key while
\* active + 1 > capacity * load_factor and allocation succeeds, the capacity
\* after the call is exactly twice the capacity before it; with load_factor
\* 0.1 and min_load_factor 0.05 each of the first five inserts of new keys
\* into a fresh table strictly increases the capacity.
C21_GrowthDoubles ==
    [][( /\ op' = "insert"
         /\ ~Stored(ht, arg_key')
         /\ ~alloc_failed' )
       => /\ (ht.active + 1) * config.load_factor.den
                 > ht.size * config.load_factor.num
             => ht'.size = 2 * ht.size
          /\ ( /\ config.load_factor = Frac(1, 10)
               /\ config.min_load_factor = Frac(1, 20)
               /\ arg_key' <= NumExtreme )
             => ht'.size > ht.size]_vars

\* under 0.1 / 0.05 the fifth new key was inserted and the capacity is 64
C21_Witness ==
    /\ op = "insert"
    /\ result = HT_SUCCESS
    /\ config.load_factor = Frac(1, 10)
    /\ arg_key = NumExtreme
    /\ ht.active = NumExtreme
    /\ ht.size = 64

C23_RhCapacity ==
    (config.load_factor = Frac(1, 2) /\ config.min_load_factor = Frac(1, 4))
        => ht.size >= 2 /\ IsPowerOfTwo(ht.size)

\* C24: in robin_hood.c, for any load factors init_ht accepts (load_factor
\* 1.0 among them) and after any sequence of insert_ht / remove_ht, search_ht
\* for a key no slot holds returns HT_KEY_NOT_FOUND, never HT_INVALID_STATE
\* and never an index.
C24_SearchMiss ==
    [][(op' = "search" /\ ~Stored(ht, arg_key')) => result' = HT_KEY_NOT_FOUND]_vars

\* C25: in robin_hood.c with the quadratic probe function as with the linear
\* one (and the load factors of the tests' setUp), along any sequence of
\* insert_ht of keys not held and remove_ht of keys held: every insert returns
\* HT_SUCCESS, every key inserted and not removed is found by search_ht with
\* its value, and a removed key is reported HT_KEY_NOT_FOUND.
C25_ProbeIndependence ==
    [][( /\ config.load_factor = Frac(1, 2)
         /\ \/ op' = "insert" /\ \A e \in ref : e[1] # arg_key'
            \/ op' = "remove" /\ \E e \in ref : e[1] = arg_key' )
       => /\ op' = "insert" => result' = HT_SUCCESS
          /\ op' = "remove" =>
                 /\ result' = HT_SUCCESS
                 /\ search_ht(ht', config, arg_key').res = HT_KEY_NOT_FOUND
          /\ \A e \in ref' :
                 LET r == search_ht(ht', config, e[1])
                 IN  r.index >= 0 /\ ht'.table[r.index].value = e[2]]_vars

\* C26: in open_table.c, after any sequence of ht_insert / ht_remove, every
\* occupied slot j stores the hash of its own key as hash_key and a psl equal
\* to (j - hash_key) mod capacity.
C26_PslExact ==
    alive =>
        \A j \in DOMAIN ht.table :
            ht.table[j].key # NULL =>
                /\ ht.table[j].hash_key = config.hash_func[Deref(ht.table[j].key)]
                /\ ht.table[j].psl = (j - ht.table[j].hash_key) % ht.size

\* a displaced entry, after a removal that shifted entries back and after a
\* resize that rehashed entries
C26_Witness ==
    /\ alive
    /\ op = "remove"
    /\ result = HT_SUCCESS
    /\ ht.size = 4
    /\ \E j \in DOMAIN ht.table : ht.table[j].key # NULL /\ ht.table[j].psl = 2

\* C27: in open_table.c, in every reachable state, the slot cyclically before
\* an occupied slot with psl p > 0 is occupied with a psl of at least p - 1.
C27_RobinHoodOrder ==
    alive =>
        \A j \in DOMAIN ht.table :
            (ht.table[j].key # NULL /\ ht.table[j].psl > 0) =>
                LET prev == ht.table[(j - 1) % ht.size]
                IN  prev.key # NULL /\ prev.psl >= ht.table[j].psl - 1

\* an entry two steps from its home slot behind a resident one step from its
\* own, the table having wrapped around
C27_Witness ==
    /\ alive
    /\ op = "insert"
    /\ result = HT_SUCCESS
    /\ ht.table[0].key # NULL
    /\ ht.table[0].psl = 2
    /\ ht.table[ht.size - 1].psl = 1

\* C28: in open_table.c, under every valid configuration, no call of
\* insert_entry runs out of slots: ht_insert never returns HT_FAILURE, and a
\* grow or a shrink carries every entry over to the new store (no key other
\* than the call's own is held by fewer or more slots after the call); stated
\* for calls on a table that holds no key twice.
C28_NoInternalFailure ==
    [][( /\ op' \in {"insert", "remove"}
         /\ \A k \in Keys : CountKey(ht.table, k) <= 1 )
       => /\ result' # HT_FAILURE
          /\ \A k \in Keys \ {arg_key'} :
                 CountKey(ht'.table, k) = CountKey(ht.table, k)]_vars

C30_PlacementStep ==
    [][( /\ op' = "insert"
         /\ result' = HT_SUCCESS
         /\ ht'.size = ht.size )
       => LET n == ht.size
              h == config.hash_func[Deref(arg_key')]
              at(x) == probe_func(h, x, n)
              e == CHOOSE x \in 0..(n - 1) :
                       /\ ht.table[at(x)].key = NULL
                       /\ \A y \in 0..(x - 1) : ht.table[at(y)].key # NULL
              x0 == CHOOSE x \in 0..e :
                        /\ x = e \/ ht.table[at(x)].psl < x
                        /\ \A y \in 0..(x - 1) : ht.table[at(y)].psl >= y
          IN  /\ ht'.table[at(x0)] = HTentry(h, x0, arg_key', arg_val')
              /\ \A x \in 0..(x0 - 1) : ht'.table[at(x)] = ht.table[at(x)]
              /\ \A x \in 0..(e - 1) :
                     /\ ht'.table[at(x)] # ht.table[at(x)]
                            => ht'.table[at(x)].psl > ht.table[at(x)].psl
                     /\ \E y \in x..e :
                            ht'.table[at(y)] =
                                [ht.table[at(x)] EXCEPT !.psl = @ + (y - x)]
              /\ \A j \in 0..(n - 1) :
                     (\A x \in 0..e : j # at(x)) => ht'.table[j] = ht.table[j]]_vars

\* an insert into the table of capacity 4 that made it full without growing
\* (load_factor 1.0, no shrinking): the slot after the new key's holds an
\* entry away from its home slot, so the new key's slot was not the empty one
\* and its resident was displaced
C30_Witness ==
    /\ alive
    /\ op = "insert"
    /\ result = HT_SUCCESS
    /\ config.load_factor = Frac(1, 1)
    /\ config.min_load_factor = Frac(0, 1)
    /\ ht.size = 4
    /\ ht.active = 4
    /\ CountKey(ht.table, arg_key) = 1
    /\ \E q \in DOMAIN ht.table :
           /\ cmp_func(ht.table[q].key, arg_key) = 0
           /\ ht.table[(q + 1) % 4].psl >= 1

\* C31: in open_table.c a single ht_insert leaves the capacity c as it was or
\* doubles it, and a single ht_remove leaves it as it was or halves it: the
\* re-insertion of the entries during a resize never resizes again.
C31_OneResizePerCall ==
    [][/\ op' = "insert" => ht'.size \in {ht.size, 2 * ht.size}
       /\ op' = "remove" => ht'.size \in {ht.size, ht.size \div 2}]_vars

\* a successful removal that leaves two entries in two slots: there were at
\* least three entries before, in at least four slots, so the call shrank the
\* store and re-inserted the entries
C31_Witness ==
    /\ alive
    /\ op = "remove"
    /\ result = HT_SUCCESS
    /\ ht.size = 2
    /\ ht.active = 2
    /\ \A j \in DOMAIN ht.table : ht.table[j].key # NULL

\* C32: in open_table.c, between calls, the active count is the number of
\* slots with a non-null key, is at most the capacity, and is the number of
\* keys inserted successfully and not removed since (stated for the states in
\* which no key is counted twice).
C32_ActiveCount ==
    alive =>
        /\ ht.active = Cardinality({ j \in DOMAIN ht.table : ht.table[j].key # NULL })
        /\ ht.active <= ht.size
        /\ (\A k \in Keys : owned_keys[k] <= 1)
               => ht.active = SumOver(owned_keys, Keys)

\* C33: in open_table.c, for every valid configuration, after every ht_insert
\* that returns HT_SUCCESS, active <= capacity * load_factor.
C33_MaxLoadFactor ==
    (alive /\ op = "insert" /\ result = HT_SUCCESS)
        => ht.active * config.load_factor.den <= ht.size * config.load_factor.num

C36_NullKeyInsert ==
    [][(op' = "insert" /\ arg_key' = NULL)
       => /\ result' = HT_INVALID_ARG
          /\ ht' = ht
          /\ ht'.active =
                 Cardinality({ j \in DOMAIN ht'.table : ht'.table[j].key # NULL })]_vars

====
